---- MODULE Spec2Model ----
(***************************************************************************)
(* Sequence layout (NuplanRasterizeEncoder / NuplanRasterizeAutoRegressive *)
(* Encoder .forward) and the autoregressive key-point fill loop            *)
(* (TrajectoryGPT.generate) of StateTransformer.                           *)
(*                                                                         *)
(* A tensor of shape (B, L, n_embed) is a function from batch rows 1..B to *)
(* a sequence of L tokens.  A token is the value of one embedding function *)
(* on one input: the record names the function (fn) and the input, either  *)
(* a raw observation (row data id d, timestep j, sub-token s) or a point   *)
(* (pt).  Two tokens are equal exactly when the same embedding function    *)
(* was applied to the same input.  Python indices are 0-based; sequences   *)
(* here are 1-based, so python index p is element p + 1.                   *)
(*                                                                         *)
(* Configuration held fixed: use_speed = False, separate_kp_encoder =      *)
(* True, traj_tokenizer = 'cluster_traj', task = 'nuplan', the module      *)
(* in eval mode, no data augmentation at inference, and a proposal bank    *)
(* whose trajectories are as long as the label.  The transformer, the      *)
(* key-point decoder and the trajectory decoder are collaborators: the     *)
(* transformer is recorded by the sequence it is run on and the decoders   *)
(* return any value of their shape; the width of the key-point decoder's   *)
(* points is part of the configuration (decoder_width).                    *)
(***************************************************************************)
EXTENDS Integers, Sequences, FiniteSets, TLC

----------------------------------------------------------------------------
(* Bounds of the model *)
MaxT == 8            \* largest number of context timesteps (action_seq_length)
MaxS == 2            \* largest number of ViT patch tokens per raster
MaxB == 2            \* largest batch size
MinLabelLen == 3     \* a short supplied trajectory_label
MaxLabelLen == 40    \* a long supplied trajectory_label
MaxCoord == 2        \* decoder outputs have coordinates in 1..MaxCoord
MaxTokenLen == 1     \* max_token_len, the number of scenario-tag tokens
MaxBank == 3         \* largest proposal bank and largest use_proposal
MaxEmbd == 5         \* largest n_embd
MaxMaskLen == 4      \* longest attention mask passed to the position-id helper
MaxHooks == 2        \* largest number of callback hooks called on one instance

(* Program constants *)
DefaultPredLength == 80    \* length of the zero label built when none is given
ar_future_interval == 20   \* stride of the even-interval key points
CameraNum == 8             \* cameras per sample
CameraPatches == 257       \* hidden states per camera image

----------------------------------------------------------------------------
(* Python / torch indexing helpers *)

Min(a, b) == IF a < b THEN a ELSE b

\* x[a:b] of a python sequence (0-based, end exclusive, clipped to the length)
Slice(seq, a, b) == SubSeq(seq, Min(a, Len(seq)) + 1, Min(b, Len(seq)))

\* number of positions addressed by x[start::step] on a length-n axis
StrideCount(n, start, step) ==
    IF start >= n THEN 0 ELSE ((n - start) + (step - 1)) \div step

\* x[start::step] = vals (a single value is broadcast)
StrideAssign(seq, start, step, vals) ==
    [p \in 1..Len(seq) |->
        IF p - 1 >= start /\ ((p - 1) - start) % step = 0
        THEN vals[IF Len(vals) = 1 THEN 1 ELSE (((p - 1) - start) \div step) + 1]
        ELSE seq[p]]

\* x[a:b] = vals, with Len(vals) = b - a and b <= Len(seq)
SliceAssign(seq, a, b, vals) ==
    [p \in 1..Len(seq) |->
        IF p - 1 >= a /\ p - 1 < b THEN vals[(p - 1) - a + 1] ELSE seq[p]]

\* IndexAssign that writes nothing
IndexAssign_Lost(seq, idx, val) == seq

\* x[idx] = val
IndexAssign(seq, idx, val) == [seq EXCEPT ![idx + 1] = val]

----------------------------------------------------------------------------
(* Tokens *)

Zero4 == <<0, 0, 0, 0>>

Tok(fn, d, j, s, pt) == [fn |-> fn, d |-> d, j |-> j, s |-> s, pt |-> pt]

\* one row of torch.zeros((B, n, n_embed))
ZeroTok == Tok("zeros", 0, 0, 0, Zero4)

Zeros(n) == [p \in 1..n |-> ZeroTok]

\* cnn_downsample of the high-res and low-res raster of timestep j, concatenated
StateEmbed(d, j) == Tok("cnn_downsample", d, j, 0, Zero4)

\* image_downsample (ViT) patch token s of the rasters of timestep j
PatchEmbed(d, j, s) == Tok("image_downsample", d, j, s, Zero4)

\* action_m_embed of the context action of timestep j
ActionEmbed(d, j) == Tok("action_m_embed", d, j, 0, Zero4)

\* action_m_embed of a 4-wide point
action_m_embed(pt) == Tok("action_m_embed", 0, 0, 0, pt)

\* kps_m_embed of the (x, y) of a point
kps_m_embed(pt) == Tok("kps_m_embed", 0, 0, 0, <<pt[1], pt[2], 0, 0>>)

\* camera_image_m_embed of hidden state n of the camera images of row d
CameraEmbed(d, n) == Tok("camera_image_m_embed", d, n, 0, Zero4)

\* proposal_m_embed of candidate c of the bank
ProposalEmbed(c) == Tok("proposal_m_embed", 0, c, 0, Zero4)

\* action_m_embed_traj of the decoded class trajectory
ClassEmbed(c) == Tok("action_m_embed_traj", 0, c, 0, Zero4)

----------------------------------------------------------------------------
(* Inputs of one call *)

\* pred_length: the length of trajectory_label, or of the zero label that
\* forward builds when the caller passes none (label_len = 0)
PredLength(c) == IF c.label_len = 0 THEN DefaultPredLength ELSE c.label_len

\* trajectory_label of the row with data id d: zeros when none was passed
TrajectoryLabel(c, d) ==
    [t \in 1..PredLength(c) |->
        IF c.label_len = 0 THEN Zero4 ELSE <<d, 0, 0, 0>>]

\* candidate c of traj_tokenizer.trajs, cut to the (x, y, yaw) points compared
\* with the label
CandidateProposal(c, cand) == [t \in 1..PredLength(c) |-> <<cand, 0, 0>>]

----------------------------------------------------------------------------
(* Widths of the embeddings *)

\* torch.cat((high_res_embed, low_res_embed), dim=-1), each n_embd // 2 wide
StateWidth(n_embd) == 2 * (n_embd \div 2)

\* the last dimension of a token, by the module that produced it; all but the
\* raster embeddings come from modules built with d_embed = n_embd
TokenWidth(tok, n_embd) ==
    IF tok.fn \in {"cnn_downsample", "image_downsample"} THEN StateWidth(n_embd)
    ELSE n_embd

\* AssignWidthOk that accepts every width
AssignWidthOk_Any(src, dst) == TRUE

\* x[...] = vals raises unless the last dimensions agree or the source's is 1
AssignWidthOk(src, dst) == src = dst \/ src = 1

----------------------------------------------------------------------------
(* Interleaved block *)

\* FlatInterleave with the two strided writes starting one position late
FlatInterleave_Shifted(d, T) ==
    LET state_embeds  == [j \in 1..T |-> StateEmbed(d, j - 1)]
        action_embeds == [j \in 1..T |-> ActionEmbed(d, j - 1)]
    IN  StrideAssign(StrideAssign(Zeros(T * 2), 1, 2, state_embeds),
                     0, 2, action_embeds)

\* input_embeds[:, ::2, :] = state_embeds; input_embeds[:, 1::2, :] = action_embeds
FlatInterleave(d, T) ==
    LET state_embeds  == [j \in 1..T |-> StateEmbed(d, j - 1)]
        action_embeds == [j \in 1..T |-> ActionEmbed(d, j - 1)]
        context_length == T * 2
    IN  StrideAssign(StrideAssign(Zeros(context_length), 0, 2, state_embeds),
                     1, 2, action_embeds)

\* for j in range(T): input_embeds[:, j*(1+S) : j*(1+S)+S, :] = state_embeds[:, j]
RECURSIVE PatchLoop(_, _, _, _, _)
PatchLoop(seq, d, j, T, S) ==
    IF j >= T THEN seq
    ELSE PatchLoop(SliceAssign(seq, j * (1 + S), j * (1 + S) + S,
                               [s \in 1..S |-> PatchEmbed(d, j, s - 1)]),
                   d, j + 1, T, S)

\* PatchInterleave with the action tokens written from position 0
PatchInterleave_ActionFirst(d, T, Ta, S) ==
    LET action_embeds == [j \in 1..Ta |-> ActionEmbed(d, j - 1)]
    IN  StrideAssign(PatchLoop(Zeros(T + T * S), d, 0, T, S), 0, 1 + S, action_embeds)

\* the ViT branch: the loop above, then input_embeds[:, S::1+S, :] = action_embeds
PatchInterleave(d, T, Ta, S) ==
    LET action_embeds == [j \in 1..Ta |-> ActionEmbed(d, j - 1)]
        context_length == T + T * S
    IN  StrideAssign(PatchLoop(Zeros(context_length), d, 0, T, S),
                     S, 1 + S, action_embeds)

----------------------------------------------------------------------------
(* Key-point slot selection *)

IsSpecified(ukp) == ukp \in {"specified", "specified_backward"}

\* StrideIndices starting at the first timestep
StrideIndices_FromZero(P) ==
    [m \in 1..StrideCount(P, 0, ar_future_interval) |-> (m - 1) * ar_future_interval]

\* x[ar_future_interval - 1 :: ar_future_interval] on a length-P axis
StrideIndices(P) ==
    [m \in 1..StrideCount(P, ar_future_interval - 1, ar_future_interval) |->
        m * ar_future_interval - 1]

\* the indices of the label that become key points
KeyPointIndices(ukp, selected_indices, P) ==
    IF IsSpecified(ukp) THEN selected_indices ELSE StrideIndices(P)

\* select_keypoints of the encoder base class: label[:, indices, :]
select_keypoints(c, d) ==
    LET idx == KeyPointIndices(c.use_key_points, c.selected_indices, PredLength(c))
    IN  [n \in 1..Len(idx) |-> TrajectoryLabel(c, d)[idx[n] + 1]]

\* label[:, indices, :] raises IndexError when an index is out of range
IndicesInRange(idx, P) == \A n \in 1..Len(idx) : idx[n] >= 0 /\ idx[n] < P

\* NotEnoughPoints that lets an empty selection through
NotEnoughPoints_Never(K) == FALSE

\* the negation of: assert future_key_points.shape[1] > 0
NotEnoughPoints(K) == K = 0

----------------------------------------------------------------------------
(* Proposal stage *)

RECURSIVE ISqrt(_, _)
ISqrt(n, r) == IF (r + 1) * (r + 1) > n THEN r ELSE ISqrt(n, r + 1)

RECURSIVE SumSeq(_, _)
SumSeq(seq, n) == IF n = 0 THEN 0 ELSE seq[n] + SumSeq(seq, n - 1)

\* torch.mean(torch.sqrt(torch.sum(diff ** 2, dim=-1)), dim=-1) for one candidate
ProposalDistance(c, d, cand) ==
    LET traj_gt == TrajectoryLabel(c, d)
        cp      == CandidateProposal(c, cand)
        dist    == [t \in 1..PredLength(c) |->
                       ISqrt((cp[t][1] - traj_gt[t][1]) * (cp[t][1] - traj_gt[t][1])
                           + (cp[t][2] - traj_gt[t][2]) * (cp[t][2] - traj_gt[t][2]), 0)]
    IN  SumSeq(dist, PredLength(c)) \div PredLength(c)

\* ProposalArgMin that takes the first candidate
ProposalArgMin_First(c, d) == 1

\* torch.argmin(gt_l2_distance, dim=-1): the first minimal candidate
ProposalArgMin(c, d) ==
    CHOOSE cand \in 1..c.bank_size :
        /\ \A o \in 1..c.bank_size : ProposalDistance(c, d, cand) <= ProposalDistance(c, d, o)
        /\ \A o \in 1..(cand - 1) : ProposalDistance(c, d, o) > ProposalDistance(c, d, cand)

\* ProposalCountOk that accepts every bank
ProposalCountOk_Any(bank_size, use_proposal) == TRUE

\* assert int(info_dict['candi_proposal_num']) == int(self.config.use_proposal)
ProposalCountOk(bank_size, use_proposal) == bank_size = use_proposal

\* the tokens get_proposal_cluster_embedding appends to one row
ProposalTokens(c, d) ==
    [n \in 1..c.bank_size |-> ProposalEmbed(n)] \o <<ClassEmbed(ProposalArgMin(c, d))>>


----------------------------------------------------------------------------
(* NuplanRasterizeEncoder.forward *)

HasCamera(c) == c.camera_image_encoder = "dinov2"

\* the local context_length right after the interleaved block is written
BlockLength(c) ==
    IF c.raster_encoder_type = "vit" THEN c.T + c.T * c.S ELSE c.T * 2

EncoderBlock(c, d) ==
    IF c.raster_encoder_type = "vit"
    THEN PatchInterleave(d, c.T, c.T, c.S)
    ELSE FlatInterleave(d, c.T)

\* camera_image_m_embed(camera_image_feature.reshape(batch_size, 8 * 257, 768))
CameraTokens(d) == [n \in 1..(CameraNum * CameraPatches) |-> CameraEmbed(d, n - 1)]

\* future_key_embeds = kps_m_embed(future_key_points_aug[:, :, :2])
KeyPointTokens(c, d) ==
    LET future_key_points == select_keypoints(c, d)
    IN  [n \in 1..Len(future_key_points) |-> kps_m_embed(future_key_points[n])]

\* PadTokens one placeholder short
PadTokens_Short(P) == Zeros(P - 1)

\* torch.zeros((batch_size, pred_length, n_embed)), the trailing placeholders
PadTokens(P) == Zeros(P)

\* The result of forward: err names the exception raised ("none" when the
\* call returns), input_embeds and info_dict are the returned pair.
EncoderForward(c) ==
    LET B  == Len(c.rows)
        P  == PredLength(c)
        \* interleaved block, then the camera tokens
        e1 == [b \in 1..B |-> EncoderBlock(c, c.rows[b])]
        e2 == IF HasCamera(c)
              THEN [b \in 1..B |-> e1[b] \o CameraTokens(c.rows[b])]
              ELSE e1
        context_length == IF HasCamera(c)
                          THEN BlockLength(c) + CameraNum * CameraPatches
                          ELSE BlockLength(c)
        info1 == [trajectory_label |-> P,
                  pred_length      |-> P,
                  context_length   |-> context_length,
                  aug_current      |-> 0]
        \* proposal stage
        prop  == c.use_proposal > 0
        propOk == ProposalCountOk(c.bank_size, c.use_proposal)
        e3 == IF prop
              THEN [b \in 1..B |-> e2[b] \o ProposalTokens(c, c.rows[b])]
              ELSE e2
        info2 == IF prop
                 THEN info1 @@ [candi_proposal_num |-> c.bank_size,
                                future_traj_diff   |->
                                    [b \in 1..B |-> [n \in 1..c.bank_size |->
                                        ProposalDistance(c, c.rows[b], n)]]]
                 ELSE info1
        \* key-point stage
        kp    == c.use_key_points # "no"
        idx   == KeyPointIndices(c.use_key_points, c.selected_indices, P)
        fkp   == [b \in 1..B |-> select_keypoints(c, c.rows[b])]
        e4 == IF kp /\ c.kp_decoder_type = "mlp"
              THEN [b \in 1..B |-> e3[b] \o KeyPointTokens(c, c.rows[b])]
              ELSE e3
        info3 == info2 @@ [future_key_points |-> IF kp THEN fkp ELSE <<>>]
        \* padding the input_embeds with pred_length zeros
        e5 == [b \in 1..B |-> e4[b] \o PadTokens(P)]
        info4 == info3 @@ [selected_indices |-> c.selected_indices]
        failed(e) == [err |-> e, input_embeds |-> <<>>, info_dict |-> <<>>]
    IN  IF ~AssignWidthOk(StateWidth(c.n_embd), c.n_embd)
        THEN failed("RuntimeError: shape mismatch")
        ELSE IF prop /\ ~propOk THEN failed("AssertionError: proposal count")
        ELSE IF kp /\ ~IndicesInRange(idx, P) THEN failed("IndexError: select_keypoints")
        ELSE IF kp /\ NotEnoughPoints(Len(idx)) THEN failed("AssertionError: future points not enough to sample")
        ELSE [err |-> "none", input_embeds |-> e5, info_dict |-> info4]


----------------------------------------------------------------------------
(* NuplanRasterizeAutoRegressiveEncoder.forward *)

\* x[start::step] = vals raises a shape error unless vals has one entry per
\* addressed position (or a single entry, which torch broadcasts)
StrideAssignOk(n, start, step, count) ==
    count = StrideCount(n, start, step) \/ count = 1

AREncoderForward(c) ==
    LET B == Len(c.rows)
        embed_sequence_length == c.T + c.T * c.S
        e1 == [b \in 1..B |-> PatchInterleave(c.rows[b], c.T, c.traj_len, c.S)]
        info == [trajectory_label |-> c.traj_len,
                 context_length   |-> c.past_frame_num * (1 + c.S) + 1,
                 aug_current      |-> 0,
                 selected_indices |-> c.selected_indices,
                 pred_length      |-> c.future_frame_num,
                 sequence_length  |-> c.S]
        failed(e) == [err |-> e, input_embeds |-> <<>>, info_dict |-> <<>>]
    IN  IF c.raster_encoder_type # "vit"
        THEN failed("AssertionError: AutoRegressiveEncoder does not support ResNet encoder")
        ELSE IF ~AssignWidthOk(StateWidth(c.n_embd), c.n_embd)
        THEN failed("RuntimeError: shape mismatch")
        ELSE IF ~StrideAssignOk(embed_sequence_length, c.S, 1 + c.S, c.traj_len)
        THEN failed("RuntimeError: shape mismatch")
        ELSE IF HasCamera(c)
        THEN failed("AssertionError: AutoRegressiveEncoder does not support camera image encoder")
        ELSE IF c.use_proposal > 0
        THEN failed("AssertionError: AutoRegressiveEncoder does not support proposal")
        ELSE IF c.use_key_points # "no"
        THEN failed("AssertionError: AutoRegressiveEncoder does not support key points")
        ELSE [err |-> "none", input_embeds |-> e1, info_dict |-> info]

----------------------------------------------------------------------------
(* KeyPointDecoder.generate_keypoints and the reference trajectory *)

\* the v-th point a decoder can return, w wide
DecoderPoint(v, w) == [n \in 1..w |-> v + 10 * (n - 1)]

\* the width of the points the key-point decoder is built to return
PointWidth(c) == IF c.predict_yaw THEN 4 ELSE 2

\* pred_logits.argmax(dim=-1): the first maximal score
ArgMax(scores) ==
    CHOOSE n \in 1..Len(scores) :
        /\ \A o \in 1..Len(scores) : scores[o] <= scores[n]
        /\ \A o \in 1..(n - 1) : scores[o] < scores[n]

\* idm_reference_global[idx], already in the ego frame: (x, y) and heading
RefPoint(idx) == <<100 + idx, 200 + idx>>

RefHeading(idx) == 300 + idx

\* MaterializePoint that starts from the logit repeated instead of zeros(4)
MaterializePoint_NoZeros(predict_yaw, logit) ==
    LET w == Len(logit)
        at(n) == IF w = 1 THEN logit[1] ELSE logit[n]
    IN  IF predict_yaw
        THEN <<at(1), at(2), at(3), at(4)>>
        ELSE <<at(1), at(2), at(1), at(2)>>

\* pred_key_point = zeros(4); pred_key_point[:] = logit or pred_key_point[:2] = logit
MaterializePoint(predict_yaw, logit) ==
    LET w == Len(logit)
        at(n) == IF w = 1 THEN logit[1] ELSE logit[n]
    IN  IF predict_yaw
        THEN <<at(1), at(2), at(3), at(4)>>
        ELSE <<at(1), at(2), 0, 0>>

\* the assignment above raises unless the widths agree or the source is 1 wide
MaterializeOk(predict_yaw, logit) ==
    Len(logit) = 1 \/ Len(logit) = (IF predict_yaw THEN 4 ELSE 2)


----------------------------------------------------------------------------
(* TrajectoryGPT._prepare_position_ids_for_generation *)

\* torch.ones of one row
Ones(n) == [p \in 1..n |-> 1]

\* attention_mask.long().cumsum(-1) at position p (1-based)
RECURSIVE CumSum(_, _)
CumSum(mask, p) == IF p = 0 THEN 0 ELSE mask[p] + CumSum(mask, p - 1)

\* prepare_position_ids_for_generation without the masked_fill_
prepare_position_ids_NoFill(mask) == [p \in 1..Len(mask) |-> CumSum(mask, p) - 1]

\* position_ids = cumsum - 1; position_ids.masked_fill_(attention_mask == 0, 1)
prepare_position_ids_for_generation(mask) ==
    [p \in 1..Len(mask) |-> IF mask[p] = 0 THEN 1 ELSE CumSum(mask, p) - 1]

----------------------------------------------------------------------------
(* DummyCallback *)

\* the hooks of AbstractCallback that DummyCallback implements, each a `pass`
Hooks == {"on_initialization_start", "on_initialization_end", "on_step_start",
          "on_step_end", "on_planner_start", "on_planner_end",
          "on_simulation_start", "on_simulation_end"}

\* the attributes __init__ sets on the instance
InitAttrs == {}

\* return self._futures
FuturesProperty(attrs) == IF "_futures" \in attrs THEN "list" ELSE "AttributeError"

----------------------------------------------------------------------------
(* State *)

VARIABLES
    cfg,                    \* configuration (model_args) and inputs (kwargs) of the call
    pc,                     \* position in the call
    err,                    \* the exception that ended the call, "none" otherwise
    input_embeds,           \* row -> sequence of tokens
    info_dict,              \* the dictionary the encoder returns
    kp_start_index,
    key_points_num,
    i,                      \* loop variable of the fill loop
    input_embeds_current,   \* the slice handed to the transformer in the fill loop
    hidden_index,           \* index of the hidden state handed to the key-point decoder
    decoder_out,            \* what generate_keypoints returned in this step
    pred_key_point,         \* row -> 4-wide point
    pred_key_points_during_generate,
    key_points_logits,      \* row -> sequence of points, <<>> while None
    transformer_calls,      \* lengths of the sequences the transformer was run on
    traj_hidden,            \* the sequence whose hidden states the trajectory decoder got
    traj_calls,             \* number of compute_traj_loss calls
    result,                 \* the returned tensor: row -> sequence of points
    attention_mask,         \* row -> sequence of 0/1
    position_ids,           \* row -> sequence of position ids
    instance_attrs,         \* the attributes set on the DummyCallback instance
    hooks_called,           \* the hooks of the DummyCallback called so far
    futures                 \* outcome of the last read of DummyCallback.futures

vars == <<cfg, pc, err, input_embeds, info_dict, kp_start_index, key_points_num, i,
          input_embeds_current, hidden_index, decoder_out, pred_key_point,
          pred_key_points_during_generate, key_points_logits, transformer_calls,
          traj_hidden, traj_calls, result, attention_mask, position_ids,
          instance_attrs, hooks_called, futures>>

positionVars == <<attention_mask, position_ids>>

callbackVars == <<instance_attrs, hooks_called, futures>>

modelVars == <<cfg, pc, err, input_embeds, info_dict, kp_start_index, key_points_num, i,
               input_embeds_current, hidden_index, decoder_out, pred_key_point,
               pred_key_points_during_generate, key_points_logits, transformer_calls,
               traj_hidden, traj_calls, result>>

loopVars == <<kp_start_index, key_points_num, i, input_embeds_current, hidden_index,
              decoder_out, pred_key_point, pred_key_points_during_generate,
              key_points_logits, transformer_calls, traj_hidden, traj_calls, result>>

B == Len(cfg.rows)

\* input_embeds.shape[1]
SeqLen == Len(input_embeds[1])


----------------------------------------------------------------------------
(* Configurations and inputs *)

Ts == {1, 2, MaxT}

LabelLens == {0, MinLabelLen, MaxLabelLen}

\* batches: one data id per row
Rows == {r \in UNION {[1..n -> 1..MaxB] : n \in 1..MaxB} :
            \A a, b \in DOMAIN r : a < b => r[a] < r[b]}

SelectedIndicesChoices == {<<>>, <<0, 2>>, <<2, 0>>, <<19, 39, 59, 79>>}

Config(call, ret, S, cam, ukp, kpd, prop, bank, yaw, k, tag, idm, rows, T, ll, sel, tl, pf) ==
    [call |-> call, raster_encoder_type |-> ret, S |-> S, camera_image_encoder |-> cam,
     use_key_points |-> ukp, kp_decoder_type |-> kpd, use_proposal |-> prop,
     bank_size |-> bank, predict_yaw |-> yaw, k |-> k, token_scenario_tag |-> tag,
     max_token_len |-> MaxTokenLen, idm_reference_global |-> idm, rows |-> rows, T |-> T,
     label_len |-> ll, selected_indices |-> sel, traj_len |-> tl,
     past_frame_num |-> pf, future_frame_num |-> IF tl > pf THEN tl - pf ELSE 0,
     decoder_width |-> IF yaw THEN 4 ELSE 2,
     interaction |-> FALSE,
     n_embd |-> 2]

RasterTypes == {<<"resnet18", 0>>} \cup {<<"vit", S>> : S \in 1..MaxS}

\* generate(): every layout, with a single row and the plain decoder
LayoutConfigs ==
    {Config("generate", rt[1], rt[2], cam, ukp, kpd, prop, prop, FALSE, -1, FALSE,
            FALSE, <<1>>, T, ll, sel, 0, 0) :
        rt \in RasterTypes, cam \in {"none", "dinov2"},
        ukp \in {"no", "specified", "specified_backward", "even_interval"},
        kpd \in {"mlp", "diffusion"}, prop \in {0, 2}, T \in Ts, ll \in LabelLens,
        sel \in SelectedIndicesChoices}

\* generate(): every variant of the fill loop, on a short flat layout
LoopConfigs ==
    {Config("generate", "resnet18", 0, "none", ukp, "mlp", 0, 0, yaw, k, tag,
            idm, rows, 1, ll, sel, 0, 0) :
        ukp \in {"specified", "specified_backward", "even_interval"},
        yaw \in BOOLEAN, k \in {1, 2}, tag \in BOOLEAN, idm \in BOOLEAN,
        rows \in Rows, ll \in {MaxLabelLen}, sel \in {<<0, 2>>, <<2, 0>>}}

\* generate(): the fixed-stride policy around the multiples of the interval
StrideConfigs ==
    {Config("generate", "resnet18", 0, "none", "even_interval", "mlp", 0, 0, FALSE, -1,
            FALSE, FALSE, <<1>>, 1, ll, <<0, 2>>, 0, 0) :
        ll \in (MaxLabelLen - ar_future_interval - 1)..MaxLabelLen}

\* generate(): a key-point decoder whose points are w wide
ShapeConfigs ==
    {[Config("generate", "resnet18", 0, "none", "specified", "mlp", 0, 0, yaw, k,
             FALSE, FALSE, <<1>>, 1, MaxLabelLen, <<0, 2>>, 0, 0)
        EXCEPT !.decoder_width = w] :
        yaw \in BOOLEAN, k \in {1, 2}, w \in 1..4}

\* generate(): the proposal stage, with banks that do and do not have the
\* configured number of candidates
ProposalConfigs ==
    {Config("generate", "resnet18", 0, "none", "no", "mlp", prop, bank, FALSE, -1,
            FALSE, FALSE, rows, 1, ll, <<>>, 0, 0) :
        prop \in 2..MaxBank, bank \in 2..MaxBank, rows \in Rows,
        ll \in {0, MinLabelLen}}

\* generate(): model_args.interaction on top of the raster encoder
InteractionConfigs ==
    {[Config("generate", "resnet18", 0, "none", ukp, "mlp", 0, 0, FALSE, -1,
             FALSE, FALSE, <<1>>, 1, MaxLabelLen, sel, 0, 0)
        EXCEPT !.interaction = TRUE] :
        ukp \in {"no", "specified"}, sel \in {<<0, 2>>}}

\* both encoders under every n_embd
WidthConfigs ==
    {[Config(call, rt[1], rt[2], cam, "no", "mlp", prop, prop, FALSE, -1,
             FALSE, FALSE, <<1>>, 2, 0, <<>>, 2, 1)
        EXCEPT !.n_embd = n] :
        call \in {"generate", "ar_forward"}, rt \in RasterTypes, cam \in {"none"},
        prop \in {0, 2}, n \in 1..MaxEmbd}
    \cup
    {[Config("generate", "resnet18", 0, cam, "specified", "mlp", 0, 0, FALSE, -1,
             FALSE, FALSE, <<1>>, T, 0, <<0, 2>>, 0, 0)
        EXCEPT !.n_embd = n] :
        cam \in {"none", "dinov2"}, T \in {1, MaxT}, n \in 1..MaxEmbd}

\* a direct call of _prepare_position_ids_for_generation, and a DummyCallback
OtherCalls ==
    {Config(call, "resnet18", 0, "none", "no", "mlp", 0, 0, FALSE, -1,
            FALSE, FALSE, <<1>>, 1, 0, <<>>, 0, 0) :
        call \in {"position_ids", "callback"}}

\* the attention masks of a direct call: one row of zeros and ones
Masks == UNION {[1..n -> {0, 1}] : n \in 1..MaxMaskLen}

\* NuplanRasterizeAutoRegressiveEncoder.forward
ARConfigs ==
    {Config("ar_forward", rt[1], rt[2], cam, ukp, "mlp", prop, prop, FALSE, -1, FALSE,
            FALSE, rows, T, 0, <<>>, tl, pf) :
        rt \in RasterTypes, cam \in {"none", "dinov2"}, ukp \in {"no", "specified"},
        prop \in {0, 2}, rows \in Rows, T \in Ts, tl \in 1..(MaxT + 1), pf \in 1..MaxT}

Configs ==
    {c \in LayoutConfigs :
        /\ (c.use_key_points = "no" => c.selected_indices = <<>> /\ c.kp_decoder_type = "mlp")
        /\ (HasCamera(c) => c.T = MaxT)}
    \cup LoopConfigs
    \cup StrideConfigs
    \cup ShapeConfigs
    \cup ProposalConfigs
    \cup InteractionConfigs
    \cup {c \in WidthConfigs : HasCamera(c) => c.T = MaxT}
    \cup OtherCalls
    \cup {c \in ARConfigs : c.traj_len \in {c.T, c.T + 1} /\ c.past_frame_num < c.traj_len}

Init ==
    /\ cfg \in Configs
    /\ pc = "idle"
    /\ err = "none"
    /\ input_embeds = <<>>
    /\ info_dict = <<>>
    /\ kp_start_index = -1
    /\ key_points_num = -1
    /\ i = -1
    /\ input_embeds_current = <<>>
    /\ hidden_index = -1
    /\ decoder_out = <<>>
    /\ pred_key_point = <<>>
    /\ pred_key_points_during_generate = <<>>
    /\ key_points_logits = <<>>
    /\ transformer_calls = <<>>
    /\ traj_hidden = <<>>
    /\ traj_calls = 0
    /\ result = <<>>
    /\ attention_mask \in (IF cfg.call = "position_ids"
                           THEN {<<mask>> : mask \in Masks} ELSE {<<>>})
    /\ position_ids = <<>>
    /\ instance_attrs = InitAttrs
    /\ hooks_called = <<>>
    /\ futures = "unread"

----------------------------------------------------------------------------
(* The calls *)

Raise(e) ==
    /\ pc' = "error"
    /\ err' = e

\* NuplanRasterizeAutoRegressiveEncoder.forward(**kwargs)
ARForward ==
    /\ pc = "idle"
    /\ cfg.call = "ar_forward"
    /\ LET r == AREncoderForward(cfg)
       IN  IF r.err # "none"
           THEN /\ Raise(r.err)
                /\ UNCHANGED <<input_embeds, info_dict>>
           ELSE /\ pc' = "done"
                /\ input_embeds' = r.input_embeds
                /\ info_dict' = r.info_dict
                /\ UNCHANGED err
    /\ UNCHANGED <<cfg, loopVars>>
    /\ UNCHANGED <<positionVars, callbackVars>>

\* generate(): input_embeds, info_dict = self.encoder(is_training=False, **kwargs)
Encode ==
    /\ pc = "idle"
    /\ cfg.call = "generate"
    /\ LET r == EncoderForward(cfg)
       IN  IF r.err # "none"
           THEN /\ Raise(r.err)
                /\ UNCHANGED <<input_embeds, info_dict>>
           ELSE /\ pc' = "encoded"
                /\ input_embeds' = r.input_embeds
                /\ info_dict' = r.info_dict
                /\ UNCHANGED err
    /\ UNCHANGED <<cfg, loopVars>>
    /\ UNCHANGED <<positionVars, callbackVars>>


\* kp_start_index = additional_token_num + context_length * 2
KpStartIndex(c, info) ==
    LET additional_token_num == IF c.token_scenario_tag THEN c.max_token_len ELSE 0
    IN  additional_token_num + info.context_length * 2

\* GenerateKeyPointIndices that always strides
GenerateKeyPointIndices_Stride(c, info) == StrideIndices(info.pred_length)

\* future_key_points = trajectory_label_dummy[:, selected_indices, :] or
\* trajectory_label_dummy[:, ar_future_interval - 1::ar_future_interval, :]
GenerateKeyPointIndices(c, info) ==
    IF IsSpecified(c.use_key_points) THEN info.selected_indices
    ELSE StrideIndices(info.pred_length)

\* WriteDummy that writes one position more
WriteDummy_Wide(seq, start, K) ==
    [p \in 1..Len(seq) |->
        IF p - 1 >= start /\ p - 1 <= start + K THEN action_m_embed(Zero4) ELSE seq[p]]

\* input_embeds[:, start:start + K, :] = future_key_embeds_dummy
WriteDummy(seq, start, K) ==
    [p \in 1..Len(seq) |->
        IF p - 1 >= start /\ p - 1 < start + K THEN action_m_embed(Zero4) ELSE seq[p]]

\* generate(), from the encoder's return to the first fill step
Prepare ==
    /\ pc = "encoded"
    /\ LET start == KpStartIndex(cfg, info_dict)
           idx   == GenerateKeyPointIndices(cfg, info_dict)
           K     == Len(idx)
           room  == Len(Slice(input_embeds[1], start, start + K))
       IN  /\ kp_start_index' = start
           /\ IF cfg.use_key_points = "no"
              THEN /\ pc' = "final"
                   /\ UNCHANGED <<err, input_embeds, key_points_num, i,
                                  pred_key_points_during_generate>>
              ELSE IF Len(info_dict.selected_indices) = 0
              THEN /\ Raise("AssertionError: selected_indices is None or empty")
                   /\ UNCHANGED <<input_embeds, key_points_num, i,
                                  pred_key_points_during_generate>>
              ELSE IF ~IndicesInRange(idx, info_dict.pred_length)
              THEN /\ Raise("IndexError: selected_indices")
                   /\ UNCHANGED <<input_embeds, key_points_num, i,
                                  pred_key_points_during_generate>>
              ELSE IF NotEnoughPoints(K)
              THEN /\ Raise("AssertionError: future points not enough to sample")
                   /\ UNCHANGED <<input_embeds, key_points_num, i,
                                  pred_key_points_during_generate>>
              ELSE IF cfg.interaction /\ "agents_num_per_scenario" \notin DOMAIN info_dict
              THEN /\ Raise("KeyError: agents_num_per_scenario")
                   /\ key_points_num' = K
                   /\ UNCHANGED <<input_embeds, i, pred_key_points_during_generate>>
              ELSE IF room # K /\ K # 1
              THEN /\ Raise("RuntimeError: shape mismatch")
                   /\ key_points_num' = K
                   /\ UNCHANGED <<input_embeds, i, pred_key_points_during_generate>>
              ELSE /\ input_embeds' = [b \in 1..B |-> WriteDummy(input_embeds[b], start, K)]
                   /\ key_points_num' = K
                   /\ pred_key_points_during_generate' = <<>>
                   /\ i' = 0
                   /\ pc' = "fill"
                   /\ UNCHANGED err
    /\ UNCHANGED <<cfg, info_dict, input_embeds_current, hidden_index, decoder_out,
                   pred_key_point, key_points_logits, transformer_calls, traj_hidden,
                   traj_calls, result>>
    /\ UNCHANGED <<positionVars, callbackVars>>

\* PrefixLength with the slot being predicted included in the slice
PrefixLength_Leaky(start, step) == start + step + 1

\* input_embeds_current = input_embeds[:, :kp_start_index + i, :]
PrefixLength(start, step) == start + step

\* HiddenIndex that does not advance with the step
HiddenIndex_Stale(start, step) == start - 1

\* transformer_outputs_hidden_state[:, kp_start_index + i - 1, :]
HiddenIndex(start, step) == start + step - 1

\* one fill step, up to the hidden state handed to the key-point decoder
FillBackbone ==
    /\ pc = "fill"
    /\ i < key_points_num
    /\ LET cur == [b \in 1..B |-> Slice(input_embeds[b], 0, PrefixLength(kp_start_index, i))]
           h   == HiddenIndex(kp_start_index, i)
           mask == [b \in 1..B |-> Ones(Len(cur[b]))]
       IN  /\ input_embeds_current' = cur
           /\ attention_mask' = mask
           /\ position_ids' = [b \in 1..B |->
                    prepare_position_ids_for_generation(mask[b])]
           /\ transformer_calls' = Append(transformer_calls, Len(cur[1]))
           /\ IF h >= Len(cur[1])
              THEN /\ Raise("IndexError: hidden state")
                   /\ UNCHANGED hidden_index
              ELSE /\ hidden_index' = h
                   /\ pc' = "decode"
                   /\ UNCHANGED err
    /\ UNCHANGED <<cfg, input_embeds, info_dict, kp_start_index, key_points_num, i,
                   decoder_out, pred_key_point, pred_key_points_during_generate,
                   key_points_logits, traj_hidden, traj_calls, result>>
    /\ UNCHANGED callbackVars

\* the width of the points generate_keypoints returns: that of the decoder
\* the model was built with
DecoderWidth(c) == c.decoder_width

\* what generate_keypoints may return for a batch: per row the candidates and
\* their scores (a single candidate and no score unless k > 1)
DecoderOutputs(c) ==
    IF c.k > 1
    THEN {[cands  |-> [b \in 1..Len(c.rows) |-> [n \in 1..c.k |-> DecoderPoint(n, DecoderWidth(c))]],
           scores |-> sc] :
            sc \in [1..Len(c.rows) -> [1..c.k -> 0..1]]}
    ELSE {[cands  |-> [b \in 1..Len(c.rows) |-> <<DecoderPoint(v[b], DecoderWidth(c))>>],
           scores |-> [b \in 1..Len(c.rows) |-> <<>>]] :
            v \in [1..Len(c.rows) -> 1..MaxCoord]}

\* SelectKeyPoint that ignores the scores
SelectKeyPoint_First(k, cands, scores) == cands[1]

\* key_points_logit of one row after the k > 1 selection
SelectKeyPoint(k, cands, scores) ==
    IF k > 1 THEN cands[ArgMax(scores)] ELSE cands[1]

\* one fill step, from the decoder call to the materialized point
FillDecode ==
    /\ pc = "decode"
    /\ \E out \in DecoderOutputs(cfg) :
        LET key_points_logit == [b \in 1..B |-> SelectKeyPoint(cfg.k, out.cands[b], out.scores[b])]
        IN  /\ decoder_out' = out
            /\ IF \E b \in 1..B : ~MaterializeOk(cfg.predict_yaw, key_points_logit[b])
               THEN /\ Raise("RuntimeError: shape mismatch")
                    /\ UNCHANGED pred_key_point
               ELSE /\ pred_key_point' = [b \in 1..B |->
                            MaterializePoint(cfg.predict_yaw, key_points_logit[b])]
                    /\ pc' = "commit"
                    /\ UNCHANGED err
    /\ UNCHANGED <<cfg, input_embeds, info_dict, kp_start_index, key_points_num, i,
                   input_embeds_current, hidden_index, pred_key_points_during_generate,
                   key_points_logits, transformer_calls, traj_hidden, traj_calls, result>>
    /\ UNCHANGED <<positionVars, callbackVars>>

\* Override under every key-point policy
Override_AnyPolicy(c, info, step, pkp) ==
    IF c.idm_reference_global
    THEN LET idx == info.selected_indices[step + 1]
         IN  [pkp EXCEPT ![1] = <<RefPoint(idx)[1], RefPoint(idx)[2], @[3], RefHeading(idx)>>]
    ELSE pkp

\* the IDM override: only the first row of pred_key_point is replaced
Override(c, info, step, pkp) ==
    IF c.idm_reference_global /\ c.use_key_points = "specified_backward"
    THEN LET idx == info.selected_indices[step + 1]
         IN  [pkp EXCEPT ![1] = <<RefPoint(idx)[1], RefPoint(idx)[2], @[3], RefHeading(idx)>>]
    ELSE pkp

\* Collected without the cut to (x, y)
Collected_Wide(predict_yaw, pt) == pt

\* the entry appended to pred_key_points_during_generate
Collected(predict_yaw, pt) == IF predict_yaw THEN pt ELSE <<pt[1], pt[2]>>

\* one fill step, from the override to the end of the loop body; leaving the
\* loop builds key_points_logits
FillCommit ==
    /\ pc = "commit"
    /\ LET pkp  == Override(cfg, info_dict, i, pred_key_point)
           slot == kp_start_index + i
           list == Append(pred_key_points_during_generate,
                          [b \in 1..B |-> Collected(cfg.predict_yaw, pkp[b])])
       IN  /\ pred_key_point' = pkp
           /\ IF slot >= SeqLen
              THEN /\ Raise("IndexError: input_embeds")
                   /\ UNCHANGED <<input_embeds, pred_key_points_during_generate, i,
                                  key_points_logits>>
              ELSE /\ input_embeds' = [b \in 1..B |->
                            IndexAssign(input_embeds[b], slot, action_m_embed(pkp[b]))]
                   /\ pred_key_points_during_generate' = list
                   /\ i' = i + 1
                   /\ IF i + 1 < key_points_num
                      THEN /\ pc' = "fill"
                           /\ UNCHANGED key_points_logits
                      ELSE /\ pc' = "final"
                           /\ key_points_logits' =
                                [b \in 1..B |-> [n \in 1..key_points_num |-> list[n][b]]]
                   /\ UNCHANGED err
    /\ UNCHANGED <<cfg, info_dict, kp_start_index, key_points_num, input_embeds_current,
                   hidden_index, decoder_out, transformer_calls, traj_hidden, traj_calls,
                   result>>
    /\ UNCHANGED <<positionVars, callbackVars>>

\* generate remaining trajectory: the transformer on the whole sequence; with
\* interaction the attention mask is first read from info_dict
FinalBackbone ==
    /\ pc = "final"
    /\ IF cfg.interaction /\ "input_embeds_mask" \notin DOMAIN info_dict
       THEN /\ Raise("KeyError: input_embeds_mask")
            /\ UNCHANGED <<transformer_calls, traj_hidden>>
       ELSE /\ transformer_calls' = Append(transformer_calls, SeqLen)
            /\ traj_hidden' = input_embeds
            /\ pc' = "traj"
            /\ UNCHANGED err
    /\ UNCHANGED <<cfg, input_embeds, info_dict, kp_start_index, key_points_num, i,
                   input_embeds_current, hidden_index, decoder_out, pred_key_point,
                   pred_key_points_during_generate, key_points_logits, traj_calls, result>>
    /\ UNCHANGED <<positionVars, callbackVars>>

\* traj_logits of compute_traj_loss: pred_length points for every row
TrajLogits(c, info) ==
    [t \in 1..info.pred_length |->
        [src |-> "traj", n |-> t - 1, pt |-> [x \in 1..PointWidth(c) |-> 0]]]

\* Returned with the trajectory in front of the key points
Returned_TrajFirst(c, info, kpl, b) ==
    IF kpl # <<>>
    THEN TrajLogits(c, info)
            \o [n \in 1..Len(kpl[b]) |-> [src |-> "kp", n |-> n - 1, pt |-> kpl[b][n]]]
    ELSE TrajLogits(c, info)

\* torch.cat([key_points_logits, traj_logits], dim=1), or traj_logits alone
Returned(c, info, kpl, b) ==
    IF kpl # <<>>
    THEN [n \in 1..Len(kpl[b]) |-> [src |-> "kp", n |-> n - 1, pt |-> kpl[b][n]]]
            \o TrajLogits(c, info)
    ELSE TrajLogits(c, info)

\* the trajectory decoder and the return
TrajDecode ==
    /\ pc = "traj"
    /\ traj_calls' = traj_calls + 1
    /\ result' = [b \in 1..B |-> Returned(cfg, info_dict, key_points_logits, b)]
    /\ pc' = "done"
    /\ UNCHANGED <<cfg, err, input_embeds, info_dict, kp_start_index, key_points_num, i,
                   input_embeds_current, hidden_index, decoder_out, pred_key_point,
                   pred_key_points_during_generate, key_points_logits, transformer_calls,
                   traj_hidden>>
    /\ UNCHANGED <<positionVars, callbackVars>>

\* self._prepare_position_ids_for_generation(attention_mask)
PreparePositionIds ==
    /\ cfg.call = "position_ids"
    /\ pc = "idle"
    /\ position_ids' = [b \in 1..Len(attention_mask) |->
            prepare_position_ids_for_generation(attention_mask[b])]
    /\ pc' = "done"
    /\ UNCHANGED <<cfg, err, input_embeds, info_dict, loopVars, attention_mask,
                   callbackVars>>

\* any of the hooks of DummyCallback: nothing is done
CallHook ==
    /\ cfg.call = "callback"
    /\ Len(hooks_called) < MaxHooks
    /\ \E h \in Hooks : hooks_called' = Append(hooks_called, h)
    /\ UNCHANGED <<modelVars, positionVars, instance_attrs, futures>>

\* a read of DummyCallback.futures
ReadFutures ==
    /\ cfg.call = "callback"
    /\ futures' = FuturesProperty(instance_attrs)
    /\ UNCHANGED <<modelVars, positionVars, instance_attrs, hooks_called>>

Next ==
    \/ ARForward
    \/ Encode
    \/ Prepare
    \/ FillBackbone
    \/ FillDecode
    \/ FillCommit
    \/ FinalBackbone
    \/ TrajDecode
    \/ PreparePositionIds
    \/ CallHook
    \/ ReadFutures

Spec == Init /\ [][Next]_vars

\* generate() runs to its end: every step is taken once it is enabled
FairSpec == Spec /\ WF_vars(Next)

TypeOK ==
    /\ pc \in {"idle", "encoded", "fill", "decode", "commit", "final", "traj", "done", "error"}
    /\ (pc = "error") = (err # "none")


----------------------------------------------------------------------------
(* Segments of a row of input_embeds, read off the tokens *)

IsBlockTok(tok) ==
    \/ tok.fn \in {"cnn_downsample", "image_downsample"}
    \/ tok.fn = "action_m_embed" /\ tok.d > 0

\* 1 interleaved block, 2 camera, 3 proposal candidates, 4 proposal class,
\* 5 key points, 6 zero placeholders
Segment(tok) ==
    IF IsBlockTok(tok) THEN 1
    ELSE IF tok.fn = "camera_image_m_embed" THEN 2
    ELSE IF tok.fn = "proposal_m_embed" THEN 3
    ELSE IF tok.fn = "action_m_embed_traj" THEN 4
    ELSE IF tok.fn = "kps_m_embed" THEN 5
    ELSE IF tok.fn = "zeros" THEN 6
    ELSE 0

CountSegment(seq, segs) == Cardinality({p \in 1..Len(seq) : Segment(seq[p]) \in segs})

UsesViT == cfg.raster_encoder_type = "vit"

\* forward of either encoder has just returned
EncoderReturned ==
    \/ cfg.call = "generate" /\ pc = "encoded"
    \/ cfg.call = "ar_forward" /\ pc = "done"

----------------------------------------------------------------------------
(* C1: flat-interleave layout.  After NuplanRasterizeEncoder.forward with a *)
(* non-ViT raster encoder, python position 2j of every row holds the j-th  *)
(* state token and position 2j+1 the j-th action token, for every j < T;   *)
(* the interleaved block is 2T long and that is the context_length the     *)
(* encoder reports (before the camera tokens it counts on top).            *)
C1_FlatInterleave ==
    (cfg.call = "generate" /\ pc = "encoded" /\ ~UsesViT) =>
        \A b \in 1..B :
            /\ \A j \in 0..(cfg.T - 1) :
                /\ input_embeds[b][2 * j + 1] = StateEmbed(cfg.rows[b], j)
                /\ input_embeds[b][2 * j + 2] = ActionEmbed(cfg.rows[b], j)
            /\ CountSegment(input_embeds[b], {1}) = 2 * cfg.T
            /\ info_dict.context_length
                   = 2 * cfg.T + CountSegment(input_embeds[b], {2})
            /\ (~HasCamera(cfg) => info_dict.context_length = 2 * cfg.T)

C1_Witness ==
    /\ cfg.call = "generate" /\ pc = "encoded" /\ ~UsesViT
    /\ cfg.T >= 2
    /\ input_embeds[1][4] = ActionEmbed(cfg.rows[1], 1)


----------------------------------------------------------------------------
(* C2: patch-interleave layout.  With a ViT raster encoder, T timesteps and *)
(* S patch tokens, python positions [j(1+S), j(1+S)+S) of every row hold   *)
(* the S patch tokens of timestep j and position j(1+S)+S holds the j-th   *)
(* action token, for both encoders; every position of the block is written *)
(* and the block is T + T*S long.                                          *)

PatchLayout ==
    \A b \in 1..B :
        /\ \A j \in 0..(cfg.T - 1) :
            /\ \A s \in 0..(cfg.S - 1) :
                input_embeds[b][j * (1 + cfg.S) + s + 1] = PatchEmbed(cfg.rows[b], j, s)
            /\ input_embeds[b][j * (1 + cfg.S) + cfg.S + 1] = ActionEmbed(cfg.rows[b], j)
        /\ \A p \in 1..(cfg.T + cfg.T * cfg.S) : IsBlockTok(input_embeds[b][p])
        /\ CountSegment(input_embeds[b], {1}) = cfg.T + cfg.T * cfg.S

\* the claim as stated: both encoders report context_length == T + T*S for
\* the block (no camera tokens are counted on top)
C2_Original ==
    (EncoderReturned /\ UsesViT /\ ~HasCamera(cfg)) =>
        /\ PatchLayout
        /\ info_dict.context_length = cfg.T + cfg.T * cfg.S

\* amended: the layout holds for both encoders; NuplanRasterizeEncoder
\* reports T + T*S (plus the camera tokens), the autoregressive encoder
\* reports past_frame_num * (1 + S) + 1
C2_PatchInterleave ==
    (EncoderReturned /\ UsesViT) =>
        /\ PatchLayout
        /\ \A b \in 1..B :
            IF cfg.call = "generate"
            THEN info_dict.context_length
                    = cfg.T + cfg.T * cfg.S + CountSegment(input_embeds[b], {2})
            ELSE /\ info_dict.context_length = cfg.past_frame_num * (1 + cfg.S) + 1
                 /\ Len(input_embeds[b]) = cfg.T + cfg.T * cfg.S

C2_Witness ==
    /\ cfg.call = "ar_forward" /\ pc = "done" /\ UsesViT
    /\ cfg.T >= 2 /\ cfg.S >= 2
    /\ input_embeds[1][2 * (1 + cfg.S)] = ActionEmbed(cfg.rows[1], 1)

----------------------------------------------------------------------------
(* C3: after NuplanRasterizeEncoder.forward every row is the interleaved   *)
(* block, then camera tokens, then proposal candidates and class, then     *)
(* key-point tokens, then pred_length zero placeholders, each a range that *)
(* follows the previous one; the length is context_length + pred_length +  *)
(* the number of appended proposal and key-point tokens.  With T = 8, the  *)
(* flat layout, pred_length = 80 and no key points (nothing else           *)
(* appended): context_length = 16 and the length is 96.                    *)
C3_Segments ==
    (cfg.call = "generate" /\ pc = "encoded") =>
        \A b \in 1..B :
            LET row == input_embeds[b]
            IN  /\ \A p \in 1..Len(row) : Segment(row[p]) \in 1..6
                /\ \A p \in 1..(Len(row) - 1) : Segment(row[p]) <= Segment(row[p + 1])
                /\ CountSegment(row, {1, 2}) = info_dict.context_length
                /\ CountSegment(row, {6}) = info_dict.pred_length
                /\ Len(row) = info_dict.context_length + info_dict.pred_length
                                + CountSegment(row, {3, 4}) + CountSegment(row, {5})
                /\ (/\ cfg.T = 8 /\ ~UsesViT /\ info_dict.pred_length = 80
                    /\ cfg.use_key_points = "no" /\ ~HasCamera(cfg)
                    /\ cfg.use_proposal = 0)
                      => info_dict.context_length = 16 /\ Len(row) = 96

C3_Witness ==
    /\ cfg.call = "generate" /\ pc = "encoded"
    /\ cfg.T = 8 /\ ~UsesViT /\ info_dict.pred_length = 80
    /\ cfg.use_key_points = "no" /\ ~HasCamera(cfg) /\ cfg.use_proposal = 0
    /\ Len(input_embeds[1]) = 96


----------------------------------------------------------------------------
(* The fill loop *)

UsesKeyPoints == cfg.call = "generate" /\ cfg.use_key_points # "no"

InLoop == pc \in {"fill", "decode", "commit"}

AfterLoop == UsesKeyPoints /\ pc \in {"final", "traj", "done"}

\* the first w components of a point
Cut(pt, w) == [x \in 1..w |-> pt[x]]

YawWidth == IF cfg.predict_yaw THEN 4 ELSE 2

(* C4: the sequence indices generate() treats as key-point slots,          *)
(* kp_start_index .. kp_start_index + K - 1, all lie in                    *)
(* [context_length, context_length + K) for the context_length the encoder *)
(* reports (and so are the K consecutive indices from context_length on).  *)
C4_SlotsAfterContext ==
    (InLoop \/ AfterLoop) =>
        \A n \in 0..(key_points_num - 1) :
            /\ kp_start_index + n >= info_dict.context_length
            /\ kp_start_index + n < info_dict.context_length + key_points_num

(* C5: at fill step i the transformer gets exactly the python positions    *)
(* [0, kp_start_index + i) of input_embeds, never a slot at or after       *)
(* kp_start_index + i, and the hidden state handed to the key-point        *)
(* decoder is the one of the last position, kp_start_index + i - 1.        *)
C5_CausalPrefix ==
    /\ pc \in {"decode", "commit"} =>
        /\ hidden_index = kp_start_index + i - 1
        /\ transformer_calls[Len(transformer_calls)] = kp_start_index + i
        /\ \A b \in 1..B :
            /\ Len(input_embeds_current[b]) = kp_start_index + i
            /\ hidden_index = Len(input_embeds_current[b]) - 1
            /\ \A p \in 1..(kp_start_index + i) :
                input_embeds_current[b][p] = input_embeds[b][p]
    /\ (UsesKeyPoints /\ input_embeds_current # <<>>) =>
        \A b \in 1..B : Len(input_embeds_current[b]) <= kp_start_index + i

C5_Witness ==
    /\ pc = "decode" /\ i = 1 /\ B = 2
    /\ Len(input_embeds_current[2]) = kp_start_index + 1

(* C6: the transformer run of step i + 1 comes after the commit of step i: *)
(* when it has run, exactly i + 1 points are committed and its input at    *)
(* index kp_start_index + i is the embedding of the point committed at     *)
(* step i, after the override, not the placeholder written before the      *)
(* loop.                                                                   *)
C6_SequentialDependency ==
    (pc = "decode" /\ i >= 1) =>
        /\ Len(pred_key_points_during_generate) = i
        /\ Len(transformer_calls) = i + 1
        /\ \A b \in 1..B :
            LET tok == input_embeds_current[b][kp_start_index + i]
            IN  /\ tok = [fn |-> "action_m_embed", d |-> 0, j |-> 0, s |-> 0,
                          pt |-> pred_key_point[b]]
                /\ tok.pt # Zero4
                /\ Cut(tok.pt, YawWidth) = pred_key_points_during_generate[i][b]
                /\ (/\ b = 1 /\ cfg.idm_reference_global
                    /\ cfg.use_key_points = "specified_backward")
                      => /\ tok.pt[1] = 100 + info_dict.selected_indices[i]
                         /\ tok.pt[2] = 200 + info_dict.selected_indices[i]

C6_Witness ==
    /\ pc = "decode" /\ i = 1 /\ B = 2
    /\ cfg.idm_reference_global /\ cfg.use_key_points = "specified_backward"
    /\ input_embeds_current[1][kp_start_index + 1].pt[1] = 100 + info_dict.selected_indices[1]

\* the encoder returned and the slot selection of generate() yields K >= 1 slots
EntryValid ==
    /\ UsesKeyPoints
    /\ pc # "idle"
    /\ input_embeds # <<>>
    /\ Len(info_dict.selected_indices) > 0
    /\ Len(GenerateKeyPointIndices(cfg, info_dict)) >= 1

(* C7: the key-point controller goes Idle -> Filling(0) -> ... ->          *)
(* Filling(K-1) -> Done: from every valid entry with K >= 1 slots it takes *)
(* the fill steps i = 0, 1, ..., K-1 in order, once each, and ends in      *)
(* Done, never in an error.                                                *)
C7_ControllerReachesDone ==
    EntryValid =>
        /\ pc # "error"
        /\ InLoop => /\ i \in 0..(key_points_num - 1)
                     /\ Len(pred_key_points_during_generate) = i
        /\ pc \in {"final", "traj", "done"} =>
                     /\ i = key_points_num
                     /\ Len(pred_key_points_during_generate) = key_points_num

(* C8: after the fill loop key_points_logits holds K points per row, 2     *)
(* wide without predict_yaw and 4 wide with it, and its i-th point is the  *)
(* point whose embedding was written at index kp_start_index + i; the      *)
(* explicit indices [19,39,59,79] without predict_yaw give shape (B,4,2).  *)
C8_KeyPointsLogits ==
    AfterLoop =>
        \A b \in 1..B :
            /\ Len(key_points_logits[b]) = key_points_num
            /\ \A n \in 1..key_points_num :
                LET tok == input_embeds[b][kp_start_index + n]
                IN  /\ Len(key_points_logits[b][n]) = YawWidth
                    /\ tok.fn = "action_m_embed" /\ tok.d = 0
                    /\ Cut(tok.pt, YawWidth) = key_points_logits[b][n]
            /\ (/\ IsSpecified(cfg.use_key_points) /\ ~cfg.predict_yaw
                /\ cfg.selected_indices = <<19, 39, 59, 79>>)
                  => /\ Len(key_points_logits[b]) = 4
                     /\ \A n \in 1..4 : Len(key_points_logits[b][n]) = 2

C8_Witness ==
    /\ AfterLoop /\ ~cfg.predict_yaw
    /\ cfg.selected_indices = <<19, 39, 59, 79>> /\ IsSpecified(cfg.use_key_points)
    /\ Len(key_points_logits[1]) = 4

(* C9 as stated: in one generate() call with K key points the transformer  *)
(* is run K times, each run on a prefix one position longer than the       *)
(* previous one.                                                           *)
C9_Original ==
    (UsesKeyPoints /\ pc = "done") =>
        /\ Len(transformer_calls) = key_points_num
        /\ \A n \in 2..Len(transformer_calls) :
            transformer_calls[n] = transformer_calls[n - 1] + 1

(* C9 amended: the transformer is run K + 1 times: K times in the fill     *)
(* loop, the i-th run on the prefix of length kp_start_index + i (one      *)
(* longer than the run before), and once more on the whole sequence.       *)
C9_BackboneRuns ==
    /\ (UsesKeyPoints /\ pc \in {"decode", "commit"}) =>
        /\ Len(transformer_calls) = i + 1
        /\ \A n \in 1..(i + 1) : transformer_calls[n] = kp_start_index + n - 1
    /\ (UsesKeyPoints /\ pc = "done") =>
        /\ Len(transformer_calls) = key_points_num + 1
        /\ \A n \in 1..key_points_num : transformer_calls[n] = kp_start_index + n - 1
        /\ \A n \in 2..key_points_num :
            transformer_calls[n] = transformer_calls[n - 1] + 1
        /\ transformer_calls[key_points_num + 1] = SeqLen
    /\ (cfg.call = "generate" /\ ~UsesKeyPoints /\ pc = "done") =>
        transformer_calls = <<SeqLen>>

C9_Witness ==
    /\ UsesKeyPoints /\ pc = "done" /\ key_points_num = 4
    /\ Len(transformer_calls) = 5

(* C10: the trajectory decoder is called once, after fill step K - 1 has   *)
(* committed, on the hidden states of the sequence whose K slots hold the  *)
(* committed embeddings; generate() returns the K key points followed by   *)
(* pred_length trajectory points, or pred_length trajectory points alone   *)
(* when use_key_points is 'no'.                                            *)
C10_TrajectoryDecoderOnce ==
    /\ traj_calls <= 1
    /\ (traj_calls = 1) = (pc = "done" /\ cfg.call = "generate")
    /\ (pc = "done" /\ UsesKeyPoints) =>
        /\ i = key_points_num
        /\ \A b \in 1..B :
            /\ \A n \in 1..key_points_num :
                /\ traj_hidden[b][kp_start_index + n].fn = "action_m_embed"
                /\ traj_hidden[b][kp_start_index + n].d = 0
                /\ Cut(traj_hidden[b][kp_start_index + n].pt, YawWidth)
                        = key_points_logits[b][n]
                /\ result[b][n].src = "kp"
                /\ result[b][n].pt = key_points_logits[b][n]
            /\ Len(result[b]) = key_points_num + info_dict.pred_length
            /\ \A n \in (key_points_num + 1)..Len(result[b]) : result[b][n].src = "traj"
    /\ (pc = "done" /\ cfg.call = "generate" /\ ~UsesKeyPoints) =>
        \A b \in 1..B :
            /\ Len(result[b]) = info_dict.pred_length
            /\ \A n \in 1..Len(result[b]) : result[b][n].src = "traj"
            /\ traj_hidden[b] = input_embeds[b]

C10_Witness ==
    /\ pc = "done" /\ UsesKeyPoints /\ key_points_num = 2 /\ B = 2
    /\ traj_calls = 1
    /\ Len(result[2]) = 2 + info_dict.pred_length


----------------------------------------------------------------------------
(* The committed point of a step *)

\* a fill step has committed and none has started since: i - 1 is its index
\* and decoder_out is what the key-point decoder returned in it
Committed == UsesKeyPoints /\ pc \in {"fill", "final", "traj", "done"} /\ i >= 1

\* the override of the step that has just committed is active
OverrideActive ==
    cfg.idm_reference_global /\ cfg.use_key_points = "specified_backward"

\* the decoder's output for row b after the k > 1 selection, as a 4-wide point
Predicted(b) ==
    MaterializePoint(cfg.predict_yaw,
                     SelectKeyPoint(cfg.k, decoder_out.cands[b], decoder_out.scores[b]))

\* what the step commits for row b when that row is the whole batch and the
\* key-point decoder returns for it what it returned for row b here (the
\* transformer and the decoder act on each row separately, so they do as
\* long as the earlier slots of the row hold the same points)
AloneCommitted(b) == Override(cfg, info_dict, i - 1, <<Predicted(b)>>)[1]

(* C11: batch independence of the fill loop.  At every step and for every  *)
(* row of a batch, the point committed, the entry collected and the        *)
(* embedding written to the slot are those of the same row run alone with  *)
(* batch size 1, the reference-override path included.                     *)
C11_BatchIndependence ==
    Committed =>
        \A b \in 1..B :
            /\ pred_key_point[b] = AloneCommitted(b)
            /\ pred_key_points_during_generate[i][b]
                    = Collected(cfg.predict_yaw, AloneCommitted(b))
            /\ input_embeds[b][kp_start_index + i] = action_m_embed(AloneCommitted(b))

\* pt carries the reference of label index idx: its (x, y) and its heading
IsReference(pt, idx) ==
    /\ pt[1] = RefPoint(idx)[1]
    /\ pt[2] = RefPoint(idx)[2]
    /\ pt[4] = RefHeading(idx)

(* C12: reference override.  When idm_reference_global is supplied and the *)
(* override is active, the point committed at step i is, for every row of  *)
(* the batch, the reference point of selected_indices[i], and the token    *)
(* written to slot i is the embedding of that point, not of the decoder's  *)
(* prediction.                                                             *)
C12_ReferenceOverride ==
    (Committed /\ OverrideActive) =>
        \A b \in 1..B :
            LET idx == info_dict.selected_indices[i]
                tok == input_embeds[b][kp_start_index + i]
            IN  /\ IsReference(pred_key_point[b], idx)
                /\ Cut(pred_key_points_during_generate[i][b], 2) = RefPoint(idx)
                /\ tok = action_m_embed(pred_key_point[b])
                /\ IsReference(tok.pt, idx)

(* C13: the override applies only under 'specified_backward'.  With        *)
(* use_key_points 'specified' or 'even_interval', supplying                *)
(* idm_reference_global leaves the point committed for every row, the      *)
(* entry collected and the embedding written to the slot those of the      *)
(* decoder's (selected) output.                                            *)
C13_OverrideOnlyBackward ==
    (/\ Committed /\ cfg.idm_reference_global
     /\ cfg.use_key_points \in {"specified", "even_interval"}) =>
        \A b \in 1..B :
            /\ pred_key_point[b] = Predicted(b)
            /\ pred_key_points_during_generate[i][b]
                    = Collected(cfg.predict_yaw, Predicted(b))
            /\ input_embeds[b][kp_start_index + i] = action_m_embed(Predicted(b))

C13_Witness ==
    /\ Committed /\ cfg.idm_reference_global /\ cfg.use_key_points = "specified"
    /\ i = 2 /\ B = 2
    /\ pred_key_point[1] = Predicted(1)
    /\ ~IsReference(pred_key_point[1], info_dict.selected_indices[i])

\* candidate n of row b has a score no other candidate of row b exceeds
IsBest(b, n) ==
    \A o \in 1..Len(decoder_out.scores[b]) :
        decoder_out.scores[b][o] <= decoder_out.scores[b][n]

\* candidate n of row b as a 4-wide point
Candidate(b, n) == MaterializePoint(cfg.predict_yaw, decoder_out.cands[b][n])

\* the point of row b is the one the decoder's output determines: a
\* best-scored candidate of that row when k > 1, the only output otherwise
FromDecoder(b, pt) ==
    IF cfg.k > 1
    THEN /\ Len(decoder_out.cands[b]) = cfg.k
         /\ \E n \in 1..cfg.k : IsBest(b, n) /\ pt = Candidate(b, n)
    ELSE /\ Len(decoder_out.cands[b]) = 1
         /\ decoder_out.scores[b] = <<>>
         /\ pt = Candidate(b, 1)

(* C14: top-k selection.  With k > 1 the point taken for row b is the      *)
(* decoder candidate of row b whose score is maximal among the k           *)
(* candidates of that row, each row by its own scores; with k = 1 (or      *)
(* less) no score is consulted and the single decoder output is taken.     *)
(* That point is the one committed wherever the reference override does    *)
(* not replace it.                                                         *)
C14_TopK ==
    /\ (UsesKeyPoints /\ pc = "commit") =>
            \A b \in 1..B : FromDecoder(b, pred_key_point[b])
    /\ Committed =>
            \A b \in 1..B : (OverrideActive /\ b = 1) \/
                /\ FromDecoder(b, pred_key_point[b])
                /\ input_embeds[b][kp_start_index + i] = action_m_embed(pred_key_point[b])
                /\ pred_key_points_during_generate[i][b]
                        = Collected(cfg.predict_yaw, pred_key_point[b])

C14_Witness ==
    /\ Committed /\ cfg.k = 2 /\ B = 2 /\ ~OverrideActive
    /\ decoder_out.scores = <<(<<0, 1>>), (<<1, 0>>)>>
    /\ pred_key_point[1] = Candidate(1, 2)
    /\ pred_key_point[2] = Candidate(2, 1)
    /\ Candidate(1, 2) # Candidate(1, 1)


----------------------------------------------------------------------------
(* Slot selection *)

(* C15: fixed-stride slot selection.  Under the even-interval policy, with *)
(* interval 20, the selected future timesteps of a pred_length-step label  *)
(* are exactly 19, 39, 59, ...: index 20m - 1 for m = 1..pred_length div   *)
(* 20, and the number K of fill steps is pred_length div 20.               *)
C15_FixedStride ==
    (UsesKeyPoints /\ ~IsSpecified(cfg.use_key_points)) =>
        /\ Len(StrideIndices(PredLength(cfg))) = PredLength(cfg) \div 20
        /\ (InLoop \/ AfterLoop) =>
            LET P   == info_dict.pred_length
                idx == GenerateKeyPointIndices(cfg, info_dict)
            IN  /\ key_points_num = P \div 20
                /\ Len(idx) = P \div 20
                /\ \A m \in 1..(P \div 20) : idx[m] = 20 * m - 1
                /\ \A b \in 1..B : Len(info_dict.future_key_points[b]) = P \div 20
                /\ AfterLoop => \A b \in 1..B : Len(key_points_logits[b]) = P \div 20

C15_Witness ==
    /\ UsesKeyPoints /\ cfg.use_key_points = "even_interval" /\ pc = "done"
    /\ info_dict.pred_length = 39
    /\ GenerateKeyPointIndices(cfg, info_dict) = <<19>>
    /\ key_points_num = 1

StrictlyIncreasing(idx) == \A n \in 1..(Len(idx) - 1) : idx[n] < idx[n + 1]

ZeroSlots ==
    /\ UsesKeyPoints
    /\ Len(KeyPointIndices(cfg.use_key_points, cfg.selected_indices, PredLength(cfg))) = 0

(* C17: empty key-point set.  When use_key_points is not 'no' and the      *)
(* slot-selection rule yields zero slots, generate() ends in an error: the *)
(* transformer is never run, generate() writes nothing to input_embeds, no *)
(* key point is collected and nothing is returned.                         *)
C17_EmptyKeyPointSet ==
    ZeroSlots =>
        /\ pc \in {"idle", "encoded", "error"}
        /\ pc = "error" =>
                err \in {"AssertionError: future points not enough to sample",
                         "AssertionError: selected_indices is None or empty"}
        /\ transformer_calls = <<>>
        /\ input_embeds = <<>> \/ input_embeds = EncoderForward(cfg).input_embeds
        /\ pred_key_points_during_generate = <<>>
        /\ key_points_logits = <<>>
        /\ traj_calls = 0
        /\ result = <<>>

C17_Witness ==
    /\ ZeroSlots /\ pc = "error"
    /\ cfg.use_key_points = "even_interval" /\ cfg.label_len = MinLabelLen
    /\ err = "AssertionError: future points not enough to sample"
    /\ transformer_calls = <<>>


----------------------------------------------------------------------------
(* Decoder output width *)

\* the key-point decoder returns points that are not as wide as generate()
\* expects (2 without predict_yaw, 4 with it)
WidthMismatch == UsesKeyPoints /\ DecoderWidth(cfg) # YawWidth

(* C18: decoder shape error.  At every fill step, when the candidate the   *)
(* key-point decoder returned is not as wide as the expected point (2      *)
(* without predict_yaw, 4 with it), generate() ends in an error and        *)
(* commits no point to the slot: no other width, width 1 included, is      *)
(* accepted.                                                               *)
C18_DecoderShapeError ==
    WidthMismatch =>
        /\ pc \notin {"commit", "final", "traj", "done"}
        /\ decoder_out # <<>> => pc = "error"
        /\ pred_key_point = <<>>
        /\ pred_key_points_during_generate = <<>>
        /\ key_points_logits = <<>>
        /\ result = <<>>


----------------------------------------------------------------------------
(* Frame of the fill loop *)

\* the number of slots generate() has reserved so far
Reserved == IF UsesKeyPoints /\ key_points_num > 0 THEN key_points_num ELSE 0

\* python position q of a row is one of the K slots
IsSlot(q) == q >= kp_start_index /\ q < kp_start_index + Reserved

\* a step of generate() after the encoder returned leaves every row as long
\* as it was and changes it at slot positions only
KeepsFrame ==
    \A b \in 1..B :
        /\ Len(input_embeds'[b]) = Len(input_embeds[b])
        /\ \A p \in 1..Len(input_embeds[b]) :
                ~IsSlot(p - 1)' => input_embeds'[b][p] = input_embeds[b][p]
        /\ \A p \in 1..info_dict.context_length :
                input_embeds'[b][p] = input_embeds[b][p]

(* C19: frame of the fill loop.  generate() changes input_embeds only at   *)
(* the python positions kp_start_index .. kp_start_index + K - 1: starting *)
(* from what the encoder returned, every step keeps the length of every    *)
(* row, every context position and every position that is not one of the  *)
(* K slots, and with K = 0 (use_key_points 'no') no step changes           *)
(* input_embeds at all.                                                    *)
C19_Frame ==
    [][/\ (cfg.call = "generate" /\ pc = "idle" /\ pc' = "encoded") =>
            input_embeds' = EncoderForward(cfg).input_embeds
       /\ (cfg.call = "generate" /\ pc # "idle") =>
            /\ KeepsFrame
            /\ Reserved' = 0 => input_embeds' = input_embeds]_vars

C19_Witness ==
    /\ AfterLoop /\ B = 2 /\ key_points_num = 2
    /\ input_embeds[2][kp_start_index + 2] = action_m_embed(pred_key_point[2])
    /\ input_embeds[2][kp_start_index + 2] # EncoderForward(cfg).input_embeds[2][kp_start_index + 2]
    /\ input_embeds[2][kp_start_index] = EncoderForward(cfg).input_embeds[2][kp_start_index]
    /\ input_embeds[2][kp_start_index + 3] = EncoderForward(cfg).input_embeds[2][kp_start_index + 3]


----------------------------------------------------------------------------
(* Proposal segment at inference *)

(* C20: at inference, generate() calling the encoder with is_training =    *)
(* False, the proposal segment is absent from input_embeds: no candidate   *)
(* embedding and no class embedding is appended and no class target is     *)
(* derived from a trajectory label, use_proposal > 0 included.             *)
C20_NoProposalAtInference ==
    (cfg.call = "generate" /\ pc = "encoded") =>
        /\ \A b \in 1..B : CountSegment(input_embeds[b], {3, 4}) = 0
        /\ "candi_proposal_num" \notin DOMAIN info_dict
        /\ "future_traj_diff" \notin DOMAIN info_dict


----------------------------------------------------------------------------
(* Key-point tokens of the encoder *)

(* C21: whenever use_key_points is not 'no', NuplanRasterizeEncoder.forward *)
(* appends one key-point token per selected key point, K tokens, right     *)
(* before the pred_length placeholders, for the mlp and for the diffusion  *)
(* key-point decoder alike.                                                *)
C21_KeyPointTokens ==
    (UsesKeyPoints /\ pc = "encoded") =>
        \A b \in 1..B :
            LET row == input_embeds[b]
                K   == Len(info_dict.future_key_points[b])
                P   == info_dict.pred_length
            IN  /\ K >= 1
                /\ CountSegment(row, {5}) = K
                /\ \A n \in 1..K :
                    row[Len(row) - P - K + n] = kps_m_embed(info_dict.future_key_points[b][n])


----------------------------------------------------------------------------
(* Proposal stage *)

\* the encoder returned with the proposal stage on
ProposalDone == cfg.call = "generate" /\ pc = "encoded" /\ cfg.use_proposal > 0

\* the class get_proposal_cluster_embedding selected for row b, read off the
\* class token that follows the candidate tokens
SelectedClass(b) == input_embeds[b][info_dict.context_length + info_dict.candi_proposal_num + 1].j

\* candidate cand has the (x, y) of the label of row b at every point
ExactMatch(b, cand) ==
    \A t \in 1..PredLength(cfg) :
        /\ CandidateProposal(cfg, cand)[t][1] = TrajectoryLabel(cfg, cfg.rows[b])[t][1]
        /\ CandidateProposal(cfg, cand)[t][2] = TrajectoryLabel(cfg, cfg.rows[b])[t][2]

Abs(x) == IF x < 0 THEN -x ELSE x

(* C22: proposal classification target.  The class selected for a row is   *)
(* a candidate whose mean pointwise (x, y) distance to the row's label is  *)
(* minimal over the bank (here every candidate is the label shifted along  *)
(* x, so the mean distance is the size of the shift); when the label is    *)
(* exactly one of the candidates, that candidate is selected and its       *)
(* distance is 0.                                                          *)
C22_ProposalTarget ==
    ProposalDone =>
        \A b \in 1..B :
            LET diff == info_dict.future_traj_diff[b]
                cls  == SelectedClass(b)
            IN  /\ Len(diff) = cfg.bank_size
                /\ cls \in 1..cfg.bank_size
                /\ input_embeds[b][info_dict.context_length + cfg.bank_size + 1] = ClassEmbed(cls)
                /\ \A n \in 1..cfg.bank_size :
                    /\ diff[n] = Abs(n - TrajectoryLabel(cfg, cfg.rows[b])[1][1])
                    /\ diff[cls] <= diff[n]
                /\ \A cand \in 1..cfg.bank_size :
                    ExactMatch(b, cand) => cls = cand /\ diff[cand] = 0

C22_Witness ==
    /\ ProposalDone /\ cfg.bank_size = 3 /\ B = 2
    /\ ExactMatch(2, 2)
    /\ SelectedClass(2) = 2
    /\ info_dict.future_traj_diff[2] = <<1, 0, 1>>
    /\ SelectedClass(1) = 1

\* the bank does not have the configured number of candidates
CountMismatch ==
    cfg.call = "generate" /\ cfg.use_proposal > 0 /\ cfg.bank_size # cfg.use_proposal

(* C23: proposal count mismatch.  When the bank of the tokenizer does not  *)
(* have use_proposal candidates, get_proposal_cluster_embedding fails at   *)
(* once: the call ends in that error, no candidate or class embedding is   *)
(* appended, no distance is computed and nothing is returned.              *)
C23_ProposalCountMismatch ==
    (CountMismatch /\ pc # "idle") =>
        /\ pc = "error"
        /\ err = "AssertionError: proposal count"
        /\ input_embeds = <<>>
        /\ info_dict = <<>>
        /\ transformer_calls = <<>>

C23_Witness ==
    /\ CountMismatch /\ pc = "error"
    /\ cfg.bank_size = 3 /\ cfg.use_proposal = 2
    /\ err = "AssertionError: proposal count"
    /\ input_embeds = <<>>


----------------------------------------------------------------------------
(* info_dict *)

\* the fields of info_dict that generate() reads in this configuration
GenerateReads(c) ==
    {"selected_indices", "pred_length", "trajectory_label", "context_length"}
    \cup (IF c.interaction /\ c.use_key_points # "no"
          THEN {"agents_num_per_scenario"} ELSE {})
    \cup (IF c.interaction THEN {"input_embeds_mask"} ELSE {})

(* C24: producer/consumer order of info_dict.  Every field generate()      *)
(* reads has been written by the encoder, its proposal stage or its        *)
(* key-point stage before the read, in every configuration, interaction    *)
(* included: the call never ends in the KeyError of a field nobody wrote.  *)
C24_InfoDictOrder ==
    (cfg.call = "generate" /\ pc # "idle") =>
        /\ info_dict # <<>> => GenerateReads(cfg) \subseteq DOMAIN info_dict
        /\ err \notin {"KeyError: agents_num_per_scenario", "KeyError: input_embeds_mask"}


----------------------------------------------------------------------------
(* Width of the tokens *)

(* C25: every token of the sequence an encoder returns has last dimension  *)
(* n_embd, whatever the modality and the configured n_embd: the state      *)
(* token, two raster embeddings of width n_embd // 2 side by side, is as   *)
(* wide as the action token; when it is not (n_embd odd), the encoder ends *)
(* in a shape error and returns no sequence.                               *)
C25_TokenWidth ==
    /\ EncoderReturned =>
        /\ StateWidth(cfg.n_embd) = cfg.n_embd
        /\ \A b \in 1..B : \A p \in 1..Len(input_embeds[b]) :
                TokenWidth(input_embeds[b][p], cfg.n_embd) = cfg.n_embd
    /\ (cfg.call \in {"generate", "ar_forward"} /\ pc # "idle" /\ cfg.n_embd % 2 = 1) =>
        /\ pc = "error"
        /\ input_embeds = <<>>
        /\ cfg.call = "generate" => err = "RuntimeError: shape mismatch"
        /\ UsesViT => err = "RuntimeError: shape mismatch"

C25_Witness ==
    /\ cfg.call = "generate" /\ pc = "error" /\ cfg.n_embd = 3
    /\ StateWidth(cfg.n_embd) = 2
    /\ err = "RuntimeError: shape mismatch"
    /\ input_embeds = <<>>
----------------------------------------------------------------------------
(* C26: DummyCallback.futures returns a list of futures for every           *)
(* DummyCallback instance, whatever hooks have or have not been called on   *)
(* it: a read of the property never raises.                                 *)
C26_FuturesReturnsList ==
    (cfg.call = "callback" /\ futures # "unread") => futures = "list"

\* the read of the property on a fresh instance, and after MaxHooks hooks
C26_FreshRead ==
    cfg.call = "callback" /\ futures = "AttributeError" /\ hooks_called = <<>>

C26_ReadAfterHooks ==
    cfg.call = "callback" /\ futures = "AttributeError" /\ Len(hooks_called) = MaxHooks
----------------------------------------------------------------------------
\* a step of the fill loop that commits its point (writes the slot)
CommitStep == pc = "commit" /\ pc' \in {"fill", "final"}

\* the 4-wide point the step commits for row b, and the point it collects
CommittedPoint(b) == pred_key_point'[b]

CollectedPoint(b) ==
    pred_key_points_during_generate'[Len(pred_key_points_during_generate')][b]

\* the override replaces row b of the committed point
OverrideApplies(b) == OverrideActive /\ b = 1

(* C27: commit step.  At fill step i the value written to input_embeds at  *)
(* python index kp_start_index + i is the embedding of the 4-wide point    *)
(* committed in that step; components 2 and 3 of the point are zero when   *)
(* predict_yaw is False and no override applies; the token that was at the *)
(* index is replaced in every row; and the point collected for step i is   *)
(* the first 2 (with yaw: all 4) components of that same point.            *)
C27_CommitStep ==
    [][CommitStep =>
        \A b \in 1..B :
            /\ Len(CommittedPoint(b)) = 4
            /\ input_embeds'[b][kp_start_index + i + 1] = action_m_embed(CommittedPoint(b))
            /\ input_embeds'[b][kp_start_index + i + 1] # input_embeds[b][kp_start_index + i + 1]
            /\ (~cfg.predict_yaw /\ ~OverrideApplies(b)) =>
                    CommittedPoint(b)[3] = 0 /\ CommittedPoint(b)[4] = 0
            /\ CollectedPoint(b) = Cut(CommittedPoint(b), YawWidth)
            /\ Len(pred_key_points_during_generate') = i + 1]_vars

\* two rows have committed points that are not zero, without yaw or override,
\* into slots that held zero placeholders or key-point tokens
C27_Witness ==
    /\ Committed /\ B = MaxB /\ ~cfg.predict_yaw /\ ~OverrideActive
    /\ \A b \in 1..B :
            /\ pred_key_point[b][1] # 0
            /\ pred_key_point[b][3] = 0
            /\ input_embeds[b][kp_start_index + i] = action_m_embed(pred_key_point[b])
            /\ pred_key_points_during_generate[i][b] = Cut(pred_key_point[b], 2)
----------------------------------------------------------------------------
\* the number of ones in mask[0..p] (python), p counted from 1 here
OnesUpTo(mask, p) == Cardinality({q \in 1..p : mask[q] = 1})

\* _prepare_position_ids_for_generation has returned from a direct call
PositionIdsReturned == cfg.call = "position_ids" /\ pc = "done"

\* the fill loop has built the mask and the position ids of a prefix
PrefixPositioned == cfg.call = "generate" /\ attention_mask # <<>>

(* C28: position ids.  For any 0/1 attention mask,                          *)
(* _prepare_position_ids_for_generation gives position p the id            *)
(* (number of ones in mask[0..p]) - 1 where mask[p] = 1 and the id 1 where  *)
(* mask[p] = 0.  In the fill loop the mask is all ones and as long as the   *)
(* prefix, so the ids of a prefix of length L are 0, 1, ..., L-1.           *)
C28_PositionIds ==
    /\ PositionIdsReturned =>
            \A b \in 1..Len(attention_mask) :
                /\ Len(position_ids[b]) = Len(attention_mask[b])
                /\ \A p \in 1..Len(attention_mask[b]) :
                        position_ids[b][p] =
                            IF attention_mask[b][p] = 1
                            THEN OnesUpTo(attention_mask[b], p) - 1
                            ELSE 1
    /\ PrefixPositioned =>
            \A b \in 1..B :
                /\ Len(attention_mask[b]) = Len(input_embeds_current[b])
                /\ \A p \in 1..Len(attention_mask[b]) : attention_mask[b][p] = 1
                /\ position_ids[b] = [p \in 1..Len(input_embeds_current[b]) |-> p - 1]

\* a mask with a zero between ones: the zero gets 1, the ones count on
C28_Witness ==
    /\ PositionIdsReturned
    /\ attention_mask = << <<1, 0, 1, 1>> >>
    /\ position_ids = << <<0, 1, 1, 2>> >>

\* a prefix of the fill loop longer than one token, in a batch of two rows
C28_PrefixReached ==
    /\ PrefixPositioned /\ B = MaxB
    /\ Len(position_ids[MaxB]) > 1
----------------------------------------------------------------------------
\* the encoder has returned to a generate() that will fill key points
AboutToFill == UsesKeyPoints /\ pc = "encoded"

\* the python index generate() will write at fill step n
SlotIndex(n) == KpStartIndex(cfg, info_dict) + n

\* python position q of row b holds the n-th (from 0) key-point token of the encoder
HoldsKeyPointToken(b, q, n) ==
    /\ q < Len(input_embeds[b])
    /\ Segment(input_embeds[b][q + 1]) = 5
    /\ CountSegment(SubSeq(input_embeds[b], 1, q), {5}) = n

(* C29: for every fill step n in 0..K-1 the index kp_start_index + n that  *)
(* generate() writes is the position at which the encoder placed key-point *)
(* token n: it is inside the sequence, it is not one of the trailing       *)
(* pred_length zero placeholders, and it is not a context, camera or       *)
(* proposal position; with and without proposal and camera tokens.         *)
C29_SlotsAreKeyPointTokens ==
    AboutToFill =>
        \A n \in 0..(Len(GenerateKeyPointIndices(cfg, info_dict)) - 1) :
            \A b \in 1..B : HoldsKeyPointToken(b, SlotIndex(n), n)

\* the first slot generate() writes is a trailing zero placeholder
C29_SlotIsPlaceholder ==
    /\ InLoop /\ i = 0 /\ pc = "commit"
    /\ kp_start_index < SeqLen
    /\ kp_start_index >= SeqLen - info_dict.pred_length

\* the first slot generate() writes lies beyond the sequence
C29_SlotOutOfRange ==
    UsesKeyPoints /\ pc = "error" /\ kp_start_index >= 0 /\ kp_start_index >= SeqLen
----------------------------------------------------------------------------
\* what the teacher-forced forward pass places in a key-point slot for a
\* ground-truth key point pt: kps_m_embed of its (x, y)
ForwardSlotToken(pt) == kps_m_embed(pt)

(* C30: generate() embeds a filled key point with the embedding function   *)
(* the encoder uses for key-point tokens in the teacher-forced forward     *)
(* pass: the slot of a committed point holds the embedding forward() would *)
(* place there for a ground-truth key point equal to that point.           *)
C30_SameKeyPointEmbedding ==
    Committed =>
        \A b \in 1..B :
            input_embeds[b][kp_start_index + i] = ForwardSlotToken(pred_key_point[b])

\* a committed slot holds action_m_embed of the point, beside key-point
\* tokens of the encoder that are kps_m_embed
C30_MixedEmbeddings ==
    /\ Committed
    /\ input_embeds[1][kp_start_index + i] = action_m_embed(pred_key_point[1])
    /\ \E p \in 1..SeqLen : Segment(input_embeds[1][p]) = 5

====
